---- MODULE Spec2Model ----
(***************************************************************************)
(* Model of the restricted code-execution engine of the AWS resources MCP  *)
(* server (src/src/mcp_server_aws_resources/server.py): the CodeExecutor   *)
(* syntax-tree visitor, AWSResourceQuerier.execute_query and the           *)
(* handle_call_tool dispatcher.                                            *)
(*                                                                         *)
(* A submitted script is an abstract syntax tree: a sequence of statement  *)
(* nodes (Assign, AnnAssign, Import, ImportFrom, Expr, If, Return).  The   *)
(* validator walks it, exec() runs it one statement at a time against a    *)
(* namespace, and the result is encoded as JSON text.                      *)
(***************************************************************************)
EXTENDS Integers, Sequences, FiniteSets, TLC

(***************************************************************************)
(* Bounds of the model.                                                    *)
(***************************************************************************)
\* Longest script, in top-level statements.
MaxStmts == 2
\* Number of request slots (executions that can be in flight).
NumSlots == 2

Range(s) == {s[i] : i \in DOMAIN s}

(***************************************************************************)
(* Python values.  Every value is a record [t, v]: t is the Python type,   *)
(* v its payload.                                                          *)
(***************************************************************************)
None == [t |-> "None", v |-> 0]
PyBool(b) == [t |-> "bool", v |-> b]
PyInt(n) == [t |-> "int", v |-> n]
PyString(s) == [t |-> "str", v |-> s]
\* A list: v is the sequence of its items.
PyList(items) == [t |-> "list", v |-> items]
\* A tuple: v is the sequence of its items.
PyTuple(items) == [t |-> "tuple", v |-> items]
\* A dict: v is the sequence of its items [k |-> key, v |-> value].
PyDict(items) == [t |-> "dict", v |-> items]
\* An object json cannot encode and that has no to_dict (a datetime, a set):
\* v is what str() gives for it.
Obj(repr) == [t |-> "object", v |-> repr]
\* An object that has a to_dict() method: v is the value to_dict() returns.
ObjToDict(d) == [t |-> "dictable", v |-> d]
\* A module object: v is the module's name.
Module(name) == [t |-> "module", v |-> name]
\* The restricted __builtins__ mapping: v is the set of names it holds.
Builtins(names) == [t |-> "builtins", v |-> names]

\* str(value) for the values the encoder's default=str hook can be handed.
py_str(val) ==
    CASE val.t = "object" -> val.v
      [] val.t = "dictable" -> "<dictable>"
      [] val.t = "module" -> "<module '" \o val.v \o "'>"
      [] OTHER -> "<builtins>"

(***************************************************************************)
(* json.dumps(value, default=str) with the default separators.  The result *)
(* is [ok |-> TRUE, s |-> text] or, when the encoder raises,               *)
(* [ok |-> FALSE, s |-> the exception's message].  Model strings hold no   *)
(* double quote or backslash, so a string is encoded by quoting it.        *)
(***************************************************************************)
Quote(s) == "\"" \o s \o "\""

MsgBadKey == "keys must be str, int, float, bool or None, not tuple"

RECURSIVE json_dumps(_)
RECURSIVE json_items(_, _, _)

\* The encoding of a dict key: str as is, int/bool/None converted to a
\* string, anything else a TypeError (default= is not applied to keys).
json_key(k) ==
    CASE k.t = "str" -> [ok |-> TRUE, s |-> Quote(k.v)]
      [] k.t = "int" -> [ok |-> TRUE, s |-> Quote(ToString(k.v))]
      [] k.t = "bool" -> [ok |-> TRUE, s |-> Quote(IF k.v THEN "true" ELSE "false")]
      [] k.t = "None" -> [ok |-> TRUE, s |-> Quote("null")]
      [] OTHER -> [ok |-> FALSE, s |-> MsgBadKey]

\* The items of a list (isDict = FALSE) or dict (isDict = TRUE) from index
\* i on, joined by ", ".
json_items(items, i, isDict) ==
    IF i > Len(items) THEN [ok |-> TRUE, s |-> ""]
    ELSE LET key == IF isDict THEN json_key(items[i].k) ELSE [ok |-> TRUE, s |-> ""]
             val == json_dumps(IF isDict THEN items[i].v ELSE items[i])
             rest == json_items(items, i + 1, isDict)
         IN  IF ~key.ok THEN key
             ELSE IF ~val.ok THEN val
             ELSE IF ~rest.ok THEN rest
             ELSE [ok |-> TRUE,
                   s |-> (IF isDict THEN key.s \o ": " ELSE "") \o val.s
                         \o (IF i < Len(items) THEN ", " ELSE "") \o rest.s]

json_dumps(val) ==
    CASE val.t = "None" -> [ok |-> TRUE, s |-> "null"]
      [] val.t = "bool" -> [ok |-> TRUE, s |-> IF val.v THEN "true" ELSE "false"]
      [] val.t = "int" -> [ok |-> TRUE, s |-> ToString(val.v)]
      [] val.t = "str" -> [ok |-> TRUE, s |-> Quote(val.v)]
      [] val.t \in {"list", "tuple"} ->
            LET body == json_items(val.v, 1, FALSE)
            IN  IF body.ok THEN [ok |-> TRUE, s |-> "[" \o body.s \o "]"] ELSE body
      [] val.t = "dict" ->
            LET body == json_items(val.v, 1, TRUE)
            IN  IF body.ok THEN [ok |-> TRUE, s |-> "{" \o body.s \o "}"] ELSE body
      [] OTHER -> [ok |-> TRUE, s |-> Quote(py_str(val))]

\* ErrorDoc as it would be were the message returned without its envelope.
ErrorDocBare(message) == Quote(message)

\* json.dumps({"error": message}): the error document execute_query returns.
ErrorDoc(message) == json_dumps(PyDict(<<[k |-> PyString("error"), v |-> PyString(message)]>>)).s

(***************************************************************************)
(* Abstract syntax.  An expression is [e |-> form, x |-> operand]:         *)
(*   Const    a literal; x is its value                                    *)
(*   Name     a variable read; x is the identifier                         *)
(*   Sdk      a call through boto3 / session; x = TRUE when the SDK call   *)
(*            returns a response, FALSE when it raises (a bad region)      *)
(*   Builtin  a call NAME(ARG) of a builtin; x = <<NAME, ARG>>             *)
(*   ModCall  __import__(M).F(...); x = <<M, F>>                           *)
(*   Attr     an attribute read OBJ.ATTR; x = <<OBJ, ATTR>>                *)
(* A target is [node, elts]: a Name (elts = <<id>>), a Tuple of names, or  *)
(* an Attribute (elts = <<object, attribute>>).  A statement node is       *)
(* [kind, targets, names, value, test, body]; the fields a kind does not   *)
(* have are empty.  ImportFrom keeps node.module in names[1], NoModule     *)
(* standing for Python's None ("from . import y").                         *)
(***************************************************************************)
Const(val) == [e |-> "Const", x |-> val]
Name(id) == [e |-> "Name", x |-> id]
Sdk(returns) == [e |-> "Sdk", x |-> returns]
BuiltinCall(name, arg) == [e |-> "Builtin", x |-> <<name, arg>>]
ModCall(module, fn) == [e |-> "ModCall", x |-> <<module, fn>>]
Attr(obj, attr) == [e |-> "Attr", x |-> <<obj, attr>>]

TName(id) == [node |-> "Name", elts |-> <<id>>]
TTuple(ids) == [node |-> "Tuple", elts |-> ids]
TAttribute(obj, attr) == [node |-> "Attribute", elts |-> <<obj, attr>>]

\* None as a module name; no import statement can name a module "None".
NoModule == "None"

Stmt(kind, targets, names, value, test, body) ==
    [kind |-> kind, targets |-> targets, names |-> names, value |-> value,
     test |-> test, body |-> body]

\* target1 = target2 = ... = value
Assign(targets, value) == Stmt("Assign", targets, <<>>, value, TRUE, <<>>)
\* target: annotation = value
AnnAssign(target, value) == Stmt("AnnAssign", <<target>>, <<>>, value, TRUE, <<>>)
\* import name1, name2, ...
Import(names) == Stmt("Import", <<>>, names, Const(None), TRUE, <<>>)
\* from module import symbol    (names = <<module, symbol>>)
ImportFrom(module, symbol) == Stmt("ImportFrom", <<>>, <<module, symbol>>, Const(None), TRUE, <<>>)
\* an expression statement
Expr(value) == Stmt("Expr", <<>>, <<>>, value, TRUE, <<>>)
\* if test: body
If(test, body) == Stmt("If", <<>>, <<>>, Const(None), test, body)
\* a return statement at module level
Return == Stmt("Return", <<>>, <<>>, Const(None), TRUE, <<>>)

(***************************************************************************)
(* CodeExecutor: the ast.NodeTransformer that walks the tree.  Its state   *)
(* is [has_result, imported_modules].                                      *)
(***************************************************************************)
CodeExecutor == [has_result |-> FALSE, imported_modules |-> {}]

\* A target that is the plain identifier `result`.
IsResultName(target) == target.node = "Name" /\ target.elts = <<"result">>

visit_Assign(node, ex) ==
    IF \E i \in DOMAIN node.targets : IsResultName(node.targets[i])
    THEN [ex EXCEPT !.has_result = TRUE]
    ELSE ex

visit_Import(node, ex) ==
    [ex EXCEPT !.imported_modules = @ \cup Range(node.names)]

visit_ImportFrom(node, ex) ==
    [ex EXCEPT !.imported_modules = @ \cup {node.names[1]}]

\* NodeVisitor.visit / generic_visit over a statement list: a node kind with
\* a visit_ method is handed to it (and its children are not visited); any
\* other node has its child statements visited in turn.
RECURSIVE visit(_, _)
visit(stmts, ex) ==
    IF stmts = <<>> THEN ex
    ELSE LET node == Head(stmts)
             after == CASE node.kind = "Assign" -> visit_Assign(node, ex)
                        [] node.kind = "Import" -> visit_Import(node, ex)
                        [] node.kind = "ImportFrom" -> visit_ImportFrom(node, ex)
                        [] OTHER -> visit(node.body, ex)
         IN  visit(Tail(stmts), after)

\* The allow-list of execute_query.
allowed_modules ==
    {"boto3", "operator", "json", "datetime", "pytz", "dateutil", "re", "time"}

\* One iteration order of allowed_modules (Python leaves the order open).
allowed_order ==
    <<"boto3", "operator", "json", "datetime", "pytz", "dateutil", "re", "time">>

unauthorized_imports(ex) == ex.imported_modules \ allowed_modules

\* ', '.join(seq)
RECURSIVE join(_)
join(seq) ==
    IF seq = <<>> THEN ""
    ELSE IF Len(seq) = 1 THEN seq[1]
    ELSE seq[1] \o ", " \o join(Tail(seq))

\* The orders in which a set can be iterated: its permutations as sequences.
Orders(S) ==
    {q \in [1..Cardinality(S) -> S] : \A i, j \in DOMAIN q : i # j => q[i] # q[j]}

\* The message of the unauthorized-imports rejection, the set iterated in
\* the order `order`.
UnauthorizedMessage(order) ==
    "Unauthorized imports: " \o join(order) \o ". Only " \o join(allowed_order)
        \o " are allowed."

\* str.join's TypeError when item i of the iterated set is None.
MsgJoinNone(i) ==
    "sequence item " \o ToString(i - 1) \o ": expected str instance, NoneType found"

MsgMissingResult == "Code must set a 'result' variable with the query output"
MsgResultNone == "Result cannot be None"

(***************************************************************************)
(* The execution namespace and the meaning of a statement.                 *)
(***************************************************************************)
\* The names execute_query copies into the restricted __builtins__.
builtin_names ==
    {"dict", "list", "tuple", "set", "str", "int", "float", "bool",
     "len", "max", "min", "sorted", "filter", "map", "sum", "any", "all",
     "__import__", "hasattr", "getattr", "isinstance", "print"}

\* The boto3 session made once in AWSResourceQuerier.__init__: every
\* namespace holds this same object.
SessionObj == Obj("<boto3.session.Session>")

\* The namespace execute_query builds for one run.
new_local_ns ==
    [n \in {"boto3", "session", "result", "itemgetter", "__builtins__"} |->
        CASE n = "boto3" -> Module("boto3")
          [] n = "session" -> SessionObj
          [] n = "result" -> None
          [] n = "itemgetter" -> Obj("<class 'operator.itemgetter'>")
          [] OTHER -> Builtins(builtin_names)]

\* ns with name bound to val.
Bind(ns, name, val) ==
    [n \in DOMAIN ns \cup {name} |-> IF n = name THEN val ELSE ns[n]]

\* What raising does: kind is the exception's class as the handlers of
\* execute_query tell them apart (SyntaxError, another Exception, or a
\* BaseException that is no Exception such as SystemExit).
NoFault == [kind |-> "none", msg |-> ""]
Raise(kind, msg) == [kind |-> kind, msg |-> msg]

MsgParse == "'(' was never closed (<unknown>, line 1)"
MsgReturn == "'return' outside function (<string>, line 1)"
MsgEndpoint == "Could not connect to the endpoint URL"
MsgBuiltinsDict == "'dict' object has no attribute 'dict'"
MsgUnpack == "cannot unpack non-iterable object"
MsgNoImport == "__import__ not found"
MsgName(id) == "name '" \o id \o "' is not defined"
MsgAttr(attr) == "object has no attribute '" \o attr \o "'"

\* What an SDK call returns.
SdkResponse == PyDict(<<[k |-> PyString("Buckets"), v |-> PyList(<<PyString("b1")>>)]>>)

\* The outcome of evaluating or running something: the namespace and the
\* session object's attributes after it, the value (of an expression), the
\* fault raised, the number of SDK calls made and the modules obtained.
Outcome(ns, attrs, val, fault, calls, mods) ==
    [ns |-> ns, attrs |-> attrs, val |-> val, fault |-> fault, calls |-> calls,
     mods |-> mods]

\* Whether name is found through the namespace's __builtins__.
HasBuiltin(ns, name) == "__builtins__" \in DOMAIN ns /\ name \in ns["__builtins__"].v

Eval(ns, attrs, expr) ==
    CASE expr.e = "Const" -> Outcome(ns, attrs, expr.x, NoFault, 0, {})
      [] expr.e = "Name" ->
            IF expr.x \in DOMAIN ns THEN Outcome(ns, attrs, ns[expr.x], NoFault, 0, {})
            ELSE IF HasBuiltin(ns, expr.x)
                 THEN Outcome(ns, attrs, Obj("<built-in " \o expr.x \o ">"), NoFault, 0, {})
            ELSE Outcome(ns, attrs, None, Raise("Exception", MsgName(expr.x)), 0, {})
      [] expr.e = "Attr" ->
            IF expr.x[1] \notin DOMAIN ns
            THEN Outcome(ns, attrs, None, Raise("Exception", MsgName(expr.x[1])), 0, {})
            ELSE IF ns[expr.x[1]] = SessionObj /\ expr.x[2] \in DOMAIN attrs
                 THEN Outcome(ns, attrs, attrs[expr.x[2]], NoFault, 0, {})
            ELSE Outcome(ns, attrs, None, Raise("Exception", MsgAttr(expr.x[2])), 0, {})
      [] expr.e = "Sdk" ->
            IF expr.x THEN Outcome(ns, attrs, SdkResponse, NoFault, 1, {})
            ELSE Outcome(ns, attrs, None, Raise("Exception", MsgEndpoint), 1, {})
      [] expr.e = "Builtin" ->
            IF ~HasBuiltin(ns, expr.x[1])
            THEN Outcome(ns, attrs, None, Raise("Exception", MsgName(expr.x[1])), 0, {})
            ELSE IF expr.x[1] = "__import__"
                 THEN Outcome(ns, attrs, Module(expr.x[2]), NoFault, 0, {expr.x[2]})
            ELSE Outcome(ns, attrs, Obj("<" \o expr.x[1] \o ">"), NoFault, 0, {})
      [] OTHER -> \* ModCall: __import__(M).F(...)
            IF ~HasBuiltin(ns, "__import__")
            THEN Outcome(ns, attrs, None, Raise("Exception", MsgName("__import__")), 0, {})
            ELSE CASE expr.x = <<"sys", "exit">> ->
                        Outcome(ns, attrs, None, Raise("SystemExit", "1"), 0, {"sys"})
                   [] expr.x = <<"ast", "parse">> ->
                        Outcome(ns, attrs, None, Raise("SyntaxError", MsgParse), 0, {"ast"})
                   [] OTHER ->
                        Outcome(ns, attrs, PyString("/srv"), NoFault, 0, {expr.x[1]})

\* Binding the names of a tuple target to the items of vals.
RECURSIVE BindNames(_, _, _, _)
BindNames(ns, ids, vals, i) ==
    IF i > Len(ids) THEN ns
    ELSE BindNames(Bind(ns, ids[i], vals[i]), ids, vals, i + 1)

\* Assigning val to one target: a name is bound in the namespace, a tuple's
\* names are bound to the items, an attribute is set on the object (of the
\* objects of the model only the session takes attributes).
BindTarget(ns, attrs, target, val) ==
    CASE target.node = "Name" ->
            [ns |-> Bind(ns, target.elts[1], val), attrs |-> attrs, fault |-> NoFault]
      [] target.node = "Tuple" ->
            IF val.t \in {"tuple", "list"} /\ Len(val.v) = Len(target.elts)
            THEN [ns |-> BindNames(ns, target.elts, val.v, 1), attrs |-> attrs,
                  fault |-> NoFault]
            ELSE [ns |-> ns, attrs |-> attrs, fault |-> Raise("Exception", MsgUnpack)]
      [] OTHER ->
            IF target.elts[1] \notin DOMAIN ns
            THEN [ns |-> ns, attrs |-> attrs,
                  fault |-> Raise("Exception", MsgName(target.elts[1]))]
            ELSE IF ns[target.elts[1]] = SessionObj
                 THEN [ns |-> ns, attrs |-> Bind(attrs, target.elts[2], val),
                       fault |-> NoFault]
            ELSE [ns |-> ns, attrs |-> attrs,
                  fault |-> Raise("Exception", MsgAttr(target.elts[2]))]

RECURSIVE BindTargets(_, _, _, _, _)
BindTargets(ns, attrs, targets, val, i) ==
    IF i > Len(targets) THEN [ns |-> ns, attrs |-> attrs, fault |-> NoFault]
    ELSE LET b == BindTarget(ns, attrs, targets[i], val)
         IN  IF b.fault # NoFault THEN b
             ELSE BindTargets(b.ns, b.attrs, targets, val, i + 1)

\* import name1, name2: each module is loaded through __builtins__'
\* __import__ and bound to its name.
RECURSIVE ImportNames(_, _, _)
ImportNames(ns, names, i) ==
    IF i > Len(names) THEN ns
    ELSE ImportNames(Bind(ns, names[i], Module(names[i])), names, i + 1)

RECURSIVE ExecBlock(_, _, _)

\* Running one statement node.
ExecStmt(ns, attrs, node) ==
    CASE node.kind \in {"Assign", "AnnAssign"} ->
            LET ev == Eval(ns, attrs, node.value)
                b == BindTargets(ns, attrs, node.targets, ev.val, 1)
            IN  IF ev.fault # NoFault THEN ev
                ELSE Outcome(b.ns, b.attrs, None, b.fault, ev.calls, ev.mods)
      [] node.kind = "Import" ->
            IF ~HasBuiltin(ns, "__import__")
            THEN Outcome(ns, attrs, None, Raise("Exception", MsgNoImport), 0, {})
            ELSE Outcome(ImportNames(ns, node.names, 1), attrs, None, NoFault, 0,
                         Range(node.names))
      [] node.kind = "ImportFrom" ->
            IF ~HasBuiltin(ns, "__import__")
            THEN Outcome(ns, attrs, None, Raise("Exception", MsgNoImport), 0, {})
            ELSE Outcome(Bind(ns, node.names[2],
                              Obj("<" \o node.names[1] \o "." \o node.names[2] \o ">")),
                         attrs, None, NoFault, 0, {node.names[1]})
      [] node.kind = "Expr" -> Eval(ns, attrs, node.value)
      [] node.kind = "If" ->
            IF node.test THEN ExecBlock(ns, attrs, node.body)
            ELSE Outcome(ns, attrs, None, NoFault, 0, {})
      [] OTHER -> Outcome(ns, attrs, None, NoFault, 0, {})

\* Running a statement list in order, stopping at the first fault.
ExecBlock(ns, attrs, stmts) ==
    IF stmts = <<>> THEN Outcome(ns, attrs, None, NoFault, 0, {})
    ELSE LET first == ExecStmt(ns, attrs, Head(stmts))
         IN  IF first.fault # NoFault THEN first
             ELSE LET rest == ExecBlock(first.ns, first.attrs, Tail(stmts))
                  IN  Outcome(rest.ns, rest.attrs, None, rest.fault,
                              first.calls + rest.calls, first.mods \cup rest.mods)

\* compile(tree, '<string>', 'exec'): a return statement outside a function,
\* at any depth, is a SyntaxError of the compiler, not of the parser.
RECURSIVE HasReturn(_)
HasReturn(stmts) ==
    \E i \in DOMAIN stmts : stmts[i].kind = "Return" \/ HasReturn(stmts[i].body)

(***************************************************************************)
(* The scripts that are submitted.  A script text is held as what          *)
(* ast.parse makes of it: [parses |-> FALSE] when the parser raises        *)
(* SyntaxError, else its statement list.                                   *)
(***************************************************************************)
Script(body) == [parses |-> TRUE, body |-> body]
Unparsable == [parses |-> FALSE, body |-> <<>>]

ResultName == TName("result")
DictA == PyDict(<<[k |-> PyString("a"), v |-> PyInt(1)]>>)
DictError == PyDict(<<[k |-> PyString("error"), v |-> PyString("boom")]>>)
DictTupleKey == PyDict(<<[k |-> PyTuple(<<PyInt(1), PyInt(2)>>), v |-> PyInt(3)]>>)

\* Statements that have no statement inside them.
SimpleStmts ==
    { Assign(<<ResultName>>, Const(None)),
      Assign(<<ResultName>>, Const(PyInt(1))),
      Assign(<<ResultName>>, Const(DictA)),
      Assign(<<ResultName>>, Const(DictError)),
      Assign(<<ResultName>>, Const(DictTupleKey)),
      Assign(<<ResultName>>, Const(Obj("2024-01-01 00:00:00"))),
      Assign(<<ResultName>>, Const(ObjToDict(DictA))),
      Assign(<<ResultName>>, Sdk(TRUE)),
      Assign(<<ResultName>>, Name("x")),
      Assign(<<ResultName>>, Attr("session", "result")),
      Assign(<<TName("x"), ResultName>>, Const(PyString("a"))),
      Assign(<<TName("x")>>, BuiltinCall("__import__", "os")),
      Assign(<<TTuple(<<"result", "x">>)>>, Const(PyTuple(<<PyInt(1), PyInt(2)>>))),
      Assign(<<TAttribute("session", "result")>>, Const(PyInt(1))),
      AnnAssign(ResultName, Const(PyInt(1))),
      Expr(Sdk(TRUE)),
      Expr(Sdk(FALSE)),
      Expr(ModCall("sys", "exit")),
      Expr(ModCall("ast", "parse")),
      Expr(BuiltinCall("open", "f")),
      Import(<<"json">>),
      Import(<<"os", "sys">>),
      ImportFrom("os", "path"),
      ImportFrom(NoModule, "y"),
      Return }

\* Statements nested in a block.
NestedStmts ==
    { If(test, <<inner>>) :
        test \in BOOLEAN,
        inner \in { Assign(<<ResultName>>, Const(PyInt(1))), Import(<<"os">>) } }

Stmts == SimpleStmts \cup NestedStmts

\* Every statement list of at most n statements.
RECURSIVE Bodies(_)
Bodies(n) ==
    IF n = 0 THEN {<<>>}
    ELSE Bodies(n - 1) \cup {Append(b, st) : b \in {c \in Bodies(n - 1) : Len(c) = n - 1}, st \in Stmts}

Scripts == {Unparsable} \cup {Script(b) : b \in Bodies(MaxStmts)}

\* The scripts of the concurrent executions: they bind x, y and result to
\* values of their own, read x, and set and read an attribute of the session.
ConcScripts ==
    { Script(<<Assign(<<TName("x")>>, Const(PyInt(1)))>>),
      Script(<<Assign(<<ResultName>>, Const(PyInt(7))),
               Assign(<<TAttribute("session", "result")>>, Name("result"))>>),
      Script(<<Assign(<<ResultName>>, Attr("session", "result"))>>),
      Script(<<Assign(<<ResultName>>, Const(PyInt(2)))>>),
      Script(<<Assign(<<ResultName>>, Name("x"))>>),
      Script(<<Assign(<<TName("x")>>, Const(PyInt(3))), Assign(<<ResultName>>, Name("x"))>>),
      Script(<<Assign(<<ResultName>>, Sdk(TRUE)), Assign(<<TName("y")>>, Const(DictA))>>) }

(***************************************************************************)
(* The server.  A slot is one call of handle_call_tool in flight.          *)
(***************************************************************************)
VARIABLES
    alive,              \* the server process is running
    builtins_is_module, \* __builtins__ of server.py is the builtins module
                        \* (server.py run as __main__), not its dict
    pc,                 \* where each slot's call is
    code_snippet,       \* the script each slot was handed
    executor,           \* the CodeExecutor of each slot after its walk
    local_ns,           \* the execution namespaces
    session_attrs,      \* the attributes scripts have set on self.session
    ip,                 \* index of the next top-level statement exec() runs
    output,             \* the text each slot's call returns
    exit,               \* the return statement each slot's call left through
    executed,           \* statements of the script each slot's run has begun
    sdk_calls,          \* SDK calls each slot's run has made
    reached             \* the modules each slot's script has obtained

vars == <<alive, builtins_is_module, pc, code_snippet, executor, local_ns,
          session_attrs, ip, output, exit, executed, sdk_calls, reached>>

Slots == 1..NumSlots

NoScript == Script(<<>>)
NoNs == [n \in {} |-> None]

\* NsSlot as it would be were the namespace kept on the querier and shared
\* by every call.
NsShared(r) == 1

\* The namespace a call runs against: local_ns is a local of execute_query,
\* so each call has its own.
NsSlot(r) == r

Init ==
    /\ alive = TRUE
    /\ builtins_is_module \in BOOLEAN
    /\ pc = [r \in Slots |-> "idle"]
    /\ code_snippet = [r \in Slots |-> NoScript]
    /\ executor = [r \in Slots |-> CodeExecutor]
    /\ local_ns = [r \in Slots |-> NoNs]
    /\ session_attrs = NoNs
    /\ ip = [r \in Slots |-> 0]
    /\ output = [r \in Slots |-> ""]
    /\ exit = [r \in Slots |-> ""]
    /\ executed = [r \in Slots |-> 0]
    /\ sdk_calls = [r \in Slots |-> 0]
    /\ reached = [r \in Slots |-> {}]

\* execute_query returns text through the return statement named site.
ReturnText(r, text, site) ==
    /\ output' = [output EXCEPT ![r] = text]
    /\ exit' = [exit EXCEPT ![r] = site]
    /\ pc' = [pc EXCEPT ![r] = "done"]

\* handle_call_tool is called with the tool's name and a code_snippet;
\* with serial, only while no other call is in flight.
Receive(r, scripts, serial) ==
    /\ alive
    /\ pc[r] = "idle"
    /\ serial => \A q \in Slots : pc[q] = "idle"
    /\ \E s \in scripts : code_snippet' = [code_snippet EXCEPT ![r] = s]
    /\ pc' = [pc EXCEPT ![r] = "validate"]
    /\ UNCHANGED <<alive, builtins_is_module, executor, local_ns, session_attrs, ip,
                   output, exit, executed, sdk_calls, reached>>

\* handle_call_tool is called with an unknown tool name or without a
\* code_snippet: its ValueError is caught by its own handler.
RejectCall(r, serial) ==
    /\ alive
    /\ pc[r] = "idle"
    /\ serial => \A q \in Slots : pc[q] = "idle"
    /\ \E msg \in {"Unknown tool: other", "Missing code_snippet argument"} :
          ReturnText(r, "Error: " \o msg, "tool_error")
    /\ UNCHANGED <<alive, builtins_is_module, code_snippet, executor, local_ns,
                   session_attrs, ip, executed, sdk_calls, reached>>

\* ast.parse, the CodeExecutor's walk and the import check.
Validate(r) ==
    /\ alive
    /\ pc[r] = "validate"
    /\ LET s == code_snippet[r]
           ex == visit(s.body, CodeExecutor)
           un == unauthorized_imports(ex)
       IN  IF ~s.parses
           THEN /\ ReturnText(r, ErrorDoc("Syntax error: " \o MsgParse), "syntax_error")
                /\ UNCHANGED executor
           ELSE IF un # {}
           THEN /\ \E order \in Orders(un) :
                      IF NoModule \in un
                      THEN ReturnText(r,
                               ErrorDoc(MsgJoinNone(CHOOSE i \in DOMAIN order : order[i] = NoModule)),
                               "exception")
                      ELSE ReturnText(r, ErrorDoc(UnauthorizedMessage(order)), "unauthorized")
                /\ executor' = [executor EXCEPT ![r] = ex]
           ELSE /\ executor' = [executor EXCEPT ![r] = ex]
                /\ pc' = [pc EXCEPT ![r] = "prepare"]
                /\ UNCHANGED <<output, exit>>
    /\ UNCHANGED <<alive, builtins_is_module, code_snippet, local_ns, session_attrs, ip,
                   executed, sdk_calls, reached>>

\* The namespace is built and the tree compiled.
Prepare(r) ==
    /\ alive
    /\ pc[r] = "prepare"
    /\ IF ~builtins_is_module
       THEN /\ ReturnText(r, ErrorDoc(MsgBuiltinsDict), "exception")
            /\ UNCHANGED <<local_ns, ip>>
       ELSE IF HasReturn(code_snippet[r].body)
       THEN /\ ReturnText(r, ErrorDoc("Syntax error: " \o MsgReturn), "syntax_error")
            /\ local_ns' = [local_ns EXCEPT ![NsSlot(r)] = new_local_ns]
            /\ UNCHANGED ip
       ELSE /\ local_ns' = [local_ns EXCEPT ![NsSlot(r)] = new_local_ns]
            /\ ip' = [ip EXCEPT ![r] = 1]
            /\ pc' = [pc EXCEPT ![r] = "exec"]
            /\ UNCHANGED <<output, exit>>
    /\ UNCHANGED <<alive, builtins_is_module, code_snippet, executor, session_attrs,
                   executed, sdk_calls, reached>>

\* exec() runs the next top-level statement of the compiled script.
ExecStep(r) ==
    /\ alive
    /\ pc[r] = "exec"
    /\ ip[r] <= Len(code_snippet[r].body)
    /\ LET o == ExecStmt(local_ns[NsSlot(r)], session_attrs, code_snippet[r].body[ip[r]])
       IN  /\ local_ns' = [local_ns EXCEPT ![NsSlot(r)] = o.ns]
           /\ session_attrs' = o.attrs
           /\ executed' = [executed EXCEPT ![r] = @ + 1]
           /\ sdk_calls' = [sdk_calls EXCEPT ![r] = @ + o.calls]
           /\ reached' = [reached EXCEPT ![r] = @ \cup o.mods]
           /\ CASE o.fault.kind = "none" ->
                     /\ ip' = [ip EXCEPT ![r] = @ + 1]
                     /\ UNCHANGED <<alive, pc, output, exit>>
                [] o.fault.kind = "SyntaxError" ->
                     /\ ReturnText(r, ErrorDoc("Syntax error: " \o o.fault.msg), "syntax_error")
                     /\ UNCHANGED <<alive, ip>>
                [] o.fault.kind = "Exception" ->
                     /\ ReturnText(r, ErrorDoc(o.fault.msg), "exception")
                     /\ UNCHANGED <<alive, ip>>
                [] OTHER -> \* no handler of execute_query or handle_call_tool
                            \* catches it: it leaves both and ends the process
                     /\ alive' = FALSE
                     /\ pc' = [pc EXCEPT ![r] = "escaped"]
                     /\ UNCHANGED <<ip, output, exit>>
    /\ UNCHANGED <<builtins_is_module, code_snippet, executor>>

\* to_dict as it would be were the result wrapped in an envelope.
to_dict_enveloped(result) == PyDict(<<[k |-> PyString("result"), v |-> result]>>)

\* to_dict as it would be were the conversion left out.
to_dict_skipped(result) == result

\* result.to_dict() when the result has one.
to_dict(result) == IF result.t = "dictable" THEN result.v ELSE result

\* exec() has returned: the result is read, checked and encoded.
Finish(r) ==
    /\ alive
    /\ pc[r] = "exec"
    /\ ip[r] > Len(code_snippet[r].body)
    /\ LET ns == local_ns[NsSlot(r)]
           result == IF "result" \in DOMAIN ns THEN ns["result"] ELSE None
           enc == json_dumps(to_dict(result))
       IN  IF ~executor[r].has_result
           THEN ReturnText(r, ErrorDoc(MsgMissingResult), "missing_result")
           ELSE IF result # None
           THEN IF enc.ok
                THEN ReturnText(r, enc.s, "success")
                ELSE ReturnText(r, ErrorDoc(enc.s), "exception")
           ELSE ReturnText(r, ErrorDoc(MsgResultNone), "result_none")
    /\ UNCHANGED <<alive, builtins_is_module, code_snippet, executor, local_ns,
                   session_attrs, ip, executed, sdk_calls, reached>>

\* handle_call_tool returns the text; the call's locals are gone.
Respond(r) ==
    /\ alive
    /\ pc[r] = "done"
    /\ pc' = [pc EXCEPT ![r] = "idle"]
    /\ code_snippet' = [code_snippet EXCEPT ![r] = NoScript]
    /\ executor' = [executor EXCEPT ![r] = CodeExecutor]
    /\ local_ns' = [local_ns EXCEPT ![NsSlot(r)] = NoNs]
    /\ ip' = [ip EXCEPT ![r] = 0]
    /\ output' = [output EXCEPT ![r] = ""]
    /\ exit' = [exit EXCEPT ![r] = ""]
    /\ executed' = [executed EXCEPT ![r] = 0]
    /\ sdk_calls' = [sdk_calls EXCEPT ![r] = 0]
    /\ reached' = [reached EXCEPT ![r] = {}]
    /\ UNCHANGED <<alive, builtins_is_module, session_attrs>>

\* The server as asyncio runs it: handle_call_tool never awaits, so one
\* call is in flight at a time.
Next ==
    \/ Receive(1, Scripts, TRUE)
    \/ RejectCall(1, TRUE)
    \/ Validate(1)
    \/ Prepare(1)
    \/ ExecStep(1)
    \/ Finish(1)
    \/ Respond(1)

Spec == Init /\ [][Next]_vars

\* Executions of execute_query interleaved statement by statement, as when
\* it is called from several threads.
NextConc ==
    \E r \in Slots :
        \/ Receive(r, ConcScripts, FALSE)
        \/ RejectCall(r, FALSE)
        \/ Validate(r)
        \/ Prepare(r)
        \/ ExecStep(r)
        \/ Finish(r)
        \/ Respond(r)

SpecConc == Init /\ [][NextConc]_vars

(***************************************************************************)
(* What the claims speak of, stated on the script and the returned text    *)
(* rather than through the validator's and the encoder's own operators.    *)
(***************************************************************************)
\* Every statement node of a tree, at any depth.
RECURSIVE AllNodes(_)
AllNodes(stmts) ==
    UNION {{stmts[i]} \cup AllNodes(stmts[i].body) : i \in DOMAIN stmts}

\* The modules the tree's import statements name.
ImportsOf(stmts) ==
    UNION {IF n.kind = "Import" THEN Range(n.names)
           ELSE IF n.kind = "ImportFrom" THEN {n.names[1]}
           ELSE {} : n \in AllNodes(stmts)}

\* Some assignment, of any form and at any depth, has the identifier
\* `result` as a target.
AssignsResult(stmts) ==
    \E n \in AllNodes(stmts) :
        /\ n.kind \in {"Assign", "AnnAssign"}
        /\ \E i \in DOMAIN n.targets :
              /\ n.targets[i].node \in {"Name", "Tuple"}
              /\ "result" \in Range(n.targets[i].elts)

\* The messages an error document of the model can carry.
Messages ==
    {"Syntax error: " \o MsgParse, "Syntax error: " \o MsgReturn,
     MsgMissingResult, MsgResultNone, MsgBadKey, MsgEndpoint, MsgBuiltinsDict,
     MsgUnpack, MsgNoImport, MsgAttr("result"), "boom"}
    \cup {MsgName(id) : id \in {"x", "open", "__import__"}}
    \cup {MsgJoinNone(i) : i \in 1..4}
    \cup {UnauthorizedMessage(o) : o \in UNION {Orders(S) : S \in SUBSET {"os", "sys"} \ {{}}}}

\* text is a JSON object of the shape {"error": <message>}.
IsErrorDoc(text) == \E m \in Messages : text = "{\"error\": \"" \o m \o "\"}"

\* A value made of null, booleans, numbers, strings, lists and string-keyed
\* maps only.
RECURSIVE IsJson(_)
IsJson(val) ==
    \/ val.t \in {"None", "bool", "int", "str"}
    \/ val.t = "list" /\ \A i \in DOMAIN val.v : IsJson(val.v[i])
    \/ val.t = "dict" /\ \A i \in DOMAIN val.v : val.v[i].k.t = "str" /\ IsJson(val.v[i].v)

\* The call in slot r is past validation: its script parsed, its imports
\* were all allowed and the validator found an assignment to result.
Accepted(r) ==
    /\ code_snippet[r].parses
    /\ ImportsOf(code_snippet[r].body) \subseteq allowed_modules
    /\ executor[r].has_result

\* exec() ran the whole script of slot r and returned.
Completed(r) == pc[r] = "done" /\ ip[r] > Len(code_snippet[r].body)

\* What `result` is bound to in the namespace of slot r's run.
BoundResult(r) == local_ns[NsSlot(r)]["result"]

\* The value a successful run hands to the encoder.
Normalized(val) == IF val.t = "dictable" THEN val.v ELSE val

\* The call in slot r raised no fault out of execute_query.
Contained(r) == pc[r] # "escaped"

(***************************************************************************)
(* C1.  A script that parses, imports only allowed modules and has no      *)
(* static assignment to result is rejected before any execution: none of   *)
(* its statements runs, no SDK call is made, and the call returns an error.*)
(***************************************************************************)
C1_RejectedBeforeExecution ==
    \A r \in Slots :
        ( /\ pc[r] \notin {"idle", "validate"}
          /\ exit[r] # "tool_error"
          /\ code_snippet[r].parses
          /\ ImportsOf(code_snippet[r].body) \subseteq allowed_modules
          /\ ~AssignsResult(code_snippet[r].body) )
        => /\ executed[r] = 0
           /\ sdk_calls[r] = 0
           /\ Contained(r)
           /\ pc[r] = "done" => IsErrorDoc(output[r])

(***************************************************************************)
(* C2.  A script that parses and imports a module outside the allow-list   *)
(* is never executed, and the call returns an error whose message names    *)
(* every unauthorized module.                                              *)
(***************************************************************************)
C2_UnauthorizedNamed ==
    \A r \in Slots :
        LET named == (ImportsOf(code_snippet[r].body) \ allowed_modules) \ {NoModule}
        IN  (code_snippet[r].parses /\ named # {})
            => /\ executed[r] = 0
               /\ sdk_calls[r] = 0
               /\ pc[r] \in {"validate", "done"}
               /\ pc[r] = "done" =>
                     \E order \in Orders(named) :
                         output[r] = "{\"error\": \"" \o UnauthorizedMessage(order) \o "\"}"

(***************************************************************************)
(* C3.  At every step of an accepted script's execution the modules the    *)
(* script has obtained through the namespace are all on the allow-list.    *)
(***************************************************************************)
C3_OnlyAllowedModulesReachable ==
    \A r \in Slots : reached[r] \subseteq allowed_modules

(***************************************************************************)
(* C4.  Whatever the script and whatever fault it raises, execute_query    *)
(* returns a document {"error": <message>}, no fault leaves execute_query  *)
(* or handle_call_tool, and the process goes on serving.                   *)
(***************************************************************************)
C4_NoFaultEscapes ==
    /\ alive
    /\ \A r \in Slots :
          /\ Contained(r)
          /\ (pc[r] = "done" /\ exit[r] \notin {"success", "tool_error"})
                => IsErrorDoc(output[r])

(***************************************************************************)
(* C5.  An accepted script whose execution ends without fault with result  *)
(* bound to a JSON-compatible value (null included) returns exactly the    *)
(* JSON encoding of that value.                                            *)
(***************************************************************************)
C5_JsonResultReturnedExactly ==
    \A r \in Slots :
        (Completed(r) /\ Accepted(r) /\ IsJson(BoundResult(r)))
        => output[r] = json_dumps(BoundResult(r)).s

(***************************************************************************)
(* C5 as amended: the same for every JSON-compatible value other than      *)
(* null; with result bound to null the call returns the error document     *)
(* "Result cannot be None".                                                *)
(***************************************************************************)
C5_NonNullJsonResultReturnedExactly ==
    \A r \in Slots :
        (Completed(r) /\ Accepted(r) /\ IsJson(BoundResult(r)))
        => IF BoundResult(r) = None
           THEN output[r] = "{\"error\": \"" \o MsgResultNone \o "\"}"
           ELSE output[r] = json_dumps(BoundResult(r)).s

\* A completed accepted run returned a JSON map as it is.
C5_Witness ==
    \E r \in Slots :
        /\ Completed(r) /\ Accepted(r)
        /\ BoundResult(r) = DictA
        /\ output[r] = "{\"a\": 1}"

(***************************************************************************)
(* C6.  Executions interleaved in any order each run against their own     *)
(* freshly built namespace: no binding made by one script, its `result`    *)
(* value included, is observable by another execution or returned as       *)
(* another execution's output.  Stated on a run: the names bound in its    *)
(* namespace, the values they hold and the output it returns come from the *)
(* seeds and from its own script alone.                                    *)
(***************************************************************************)
\* The names a script's own assignments bind.
OwnNames(stmts) ==
    UNION {UNION {Range(n.targets[i].elts) :
                    i \in {j \in DOMAIN n.targets : n.targets[j].node \in {"Name", "Tuple"}}} :
              n \in {m \in AllNodes(stmts) : m.kind \in {"Assign", "AnnAssign"}}}

\* The values a script's own statements produce.
OwnValues(stmts) ==
    {n.value.x : n \in {m \in AllNodes(stmts) : m.value.e = "Const"}}
    \cup (IF \E n \in AllNodes(stmts) : n.value.e = "Sdk" THEN {SdkResponse} ELSE {})

\* The script reads an attribute of the session object.
ReadsSession(stmts) == \E n \in AllNodes(stmts) : n.value.e = "Attr"

\* The call in slot r has a namespace: it is executing, or has after that
\* returned.
HasNamespace(r) == pc[r] = "exec" \/ (pc[r] = "done" /\ ip[r] >= 1)

C6_NoValueFromAnotherExecution ==
    \A r \in Slots :
        HasNamespace(r)
        => LET ns == local_ns[NsSlot(r)]
               body == code_snippet[r].body
           IN  /\ DOMAIN new_local_ns \subseteq DOMAIN ns
               /\ \A n \in DOMAIN new_local_ns \ {"result"} : ns[n] = new_local_ns[n]
               /\ \A n \in DOMAIN ns \ DOMAIN new_local_ns :
                     n \in OwnNames(body) /\ ns[n] \in OwnValues(body)
               /\ ns["result"] \in {None} \cup OwnValues(body)
               /\ exit[r] = "success" =>
                     \E val \in OwnValues(body) : output[r] = json_dumps(val).s

(***************************************************************************)
(* C6 as amended: each execution runs against its own freshly built        *)
(* namespace: the seeds are in place, every other name in it was bound by  *)
(* the run's own script, `result` is rebound only by the run's own script, *)
(* and the output is the encoding of the run's own `result`.  The values   *)
(* come from the script itself, unless the script reads them from the      *)
(* session object, which every namespace shares.                           *)
(***************************************************************************)
C6_NamespaceIsolation ==
    \A r \in Slots :
        HasNamespace(r)
        => LET ns == local_ns[NsSlot(r)]
               body == code_snippet[r].body
           IN  /\ DOMAIN new_local_ns \subseteq DOMAIN ns
               /\ \A n \in DOMAIN new_local_ns \ {"result"} : ns[n] = new_local_ns[n]
               /\ \A n \in DOMAIN ns \ DOMAIN new_local_ns : n \in OwnNames(body)
               /\ ns["result"] # None => "result" \in OwnNames(body)
               /\ ~ReadsSession(body) =>
                     \A n \in (DOMAIN ns \ DOMAIN new_local_ns) \cup {"result"} :
                         ns[n] \in {None} \cup OwnValues(body)
               /\ exit[r] = "success" =>
                     output[r] = json_dumps(Normalized(ns["result"])).s

\* One execution holds a binding of x while another, whose script reads x,
\* has ended with x undefined.
C6_Witness ==
    \E r, q \in Slots :
        /\ r # q
        /\ pc[r] = "exec"
        /\ "x" \in DOMAIN local_ns[NsSlot(r)]
        /\ pc[q] = "done"
        /\ executed[q] = 1
        /\ code_snippet[q].body = <<Assign(<<ResultName>>, Name("x"))>>
        /\ output[q] = "{\"error\": \"name 'x' is not defined\"}"

(***************************************************************************)
(* C7.  A script that fails to parse gets {"error": "Syntax error: ..."}   *)
(* and none of it is executed; and a "Syntax error:" document is returned  *)
(* only when no execution has taken place.                                 *)
(***************************************************************************)
SyntaxErrorDocs ==
    {"{\"error\": \"Syntax error: " \o m \o "\"}" : m \in {MsgParse, MsgReturn}}

C7_SyntaxErrorOnlyBeforeExecution ==
    \A r \in Slots :
        /\ (pc[r] = "done" /\ ~code_snippet[r].parses)
              => /\ output[r] = "{\"error\": \"Syntax error: " \o MsgParse \o "\"}"
                 /\ executed[r] = 0
                 /\ sdk_calls[r] = 0
        /\ (pc[r] = "done" /\ output[r] \in SyntaxErrorDocs)
              => /\ executed[r] = 0
                 /\ sdk_calls[r] = 0

(***************************************************************************)
(* C8.  An accepted script whose execution completes without fault: with   *)
(* result still None the call returns an error; otherwise it returns       *)
(* success carrying the value the script bound.                            *)
(***************************************************************************)
C8_SentinelOrSuccess ==
    \A r \in Slots :
        (Completed(r) /\ Accepted(r))
        => IF BoundResult(r) = None
           THEN output[r] = "{\"error\": \"" \o MsgResultNone \o "\"}"
           ELSE /\ json_dumps(Normalized(BoundResult(r))).ok
                /\ output[r] = json_dumps(Normalized(BoundResult(r))).s

(***************************************************************************)
(* C8 as amended: with result still None the call returns an error;        *)
(* otherwise the value (converted by to_dict() when it has one) is         *)
(* encoded, and the call returns the encoding when the encoder succeeds    *)
(* and an error document carrying the encoder's message when it raises.    *)
(***************************************************************************)
C8_SentinelOrEncoded ==
    \A r \in Slots :
        (Completed(r) /\ Accepted(r))
        => LET enc == json_dumps(Normalized(BoundResult(r)))
           IN  IF BoundResult(r) = None
               THEN output[r] = "{\"error\": \"" \o MsgResultNone \o "\"}"
               ELSE IF enc.ok
               THEN output[r] = enc.s
               ELSE output[r] = "{\"error\": \"" \o enc.s \o "\"}"

\* An accepted script whose only assignment to result sits on a branch not
\* taken has completed, result still None.
C8_Witness ==
    \E r \in Slots :
        /\ Completed(r) /\ Accepted(r)
        /\ \E i \in DOMAIN code_snippet[r].body :
              /\ code_snippet[r].body[i].kind = "If"
              /\ ~code_snippet[r].body[i].test
        /\ BoundResult(r) = None
        /\ exit[r] = "result_none"

(***************************************************************************)
(* C9.  After the validator's walk, has_result is true if and only if      *)
(* some assignment target anywhere in the tree, in any assignment form, is *)
(* the identifier `result`.                                                *)
(***************************************************************************)
C9_FlagIffResultAssigned ==
    \A r \in Slots :
        pc[r] \in {"prepare", "exec"}
        => (executor[r].has_result <=> AssignsResult(code_snippet[r].body))

(***************************************************************************)
(* C10.  The text execute_query returns has the shape {"error": <message>} *)
(* if and only if the request failed.                                      *)
(***************************************************************************)
C10_ErrorShapeIffFailed ==
    \A r \in Slots :
        (pc[r] = "done" /\ exit[r] # "tool_error")
        => (IsErrorDoc(output[r]) <=> exit[r] # "success")

(***************************************************************************)
(* C10 as amended: every failed request returns a document of the shape    *)
(* {"error": <message>}; a successful one returns that shape only when the *)
(* script's own result is itself a map with the single key "error".        *)
(***************************************************************************)
\* A map whose only key is "error".
IsErrorValue(val) ==
    val.t = "dict" /\ Len(val.v) = 1 /\ val.v[1].k = PyString("error")

C10_ErrorShapeOfFailureOrOwnResult ==
    \A r \in Slots :
        (pc[r] = "done" /\ exit[r] # "tool_error")
        => /\ exit[r] # "success" => IsErrorDoc(output[r])
           /\ (exit[r] = "success" /\ IsErrorDoc(output[r]))
                 => IsErrorValue(Normalized(BoundResult(r)))

\* A successful execution returned a document of the error shape.
C10_Witness ==
    \E r \in Slots :
        /\ pc[r] = "done"
        /\ exit[r] = "success"
        /\ BoundResult(r) = DictError
        /\ output[r] = "{\"error\": \"boom\"}"

====
